---- MODULE Spec2Model ----
(***************************************************************************)
(* A model of the smart-swap router's findBestRoutes pipeline              *)
(* (src/unnamed/part_000): validation, prefetch, percentage slicing, the   *)
(* hop-by-hop quote loop (buildQuoteUpdateRequests / updateQuoteMap),      *)
(* categorizeQuotes, pruneQuoteMap, the final ranking and the result.      *)
(*                                                                         *)
(* One behaviour is one call.  The State Fetcher, the batched parameter    *)
(* builder and the Quote Engine are external: each of their answers is a   *)
(* nondeterministic choice (success with some amount, or a failure).       *)
(* Hop indices are 0-based as in the source; TLA+ sequences are 1-based,   *)
(* so hop h of a chain is calculatedHops[h + 1].                           *)
(***************************************************************************)
EXTENDS Integers, Sequences, FiniteSets, TLC

\* ------------------------------------------------------------------ bounds
\* Largest trade amount of a call.
MaxAmount == 2
\* Largest numTopRoutes a call is made with.
MaxTopRoutes == 2

\* ------------------------------------------------------- the world of a call
\* The pool registry (pools: Record<string, TokenPairPool>).  p1 and p2 both
\* trade A/B, with opposite mint order; p3 and p4 form the two-hop path A-X-B;
\* p3, p5 and p6 form the three-hop path A-X-Y-B.
Pools ==
    [p1 |-> [address |-> "p1", tokenMintA |-> "A", tokenMintB |-> "B"],
     p2 |-> [address |-> "p2", tokenMintA |-> "B", tokenMintB |-> "A"],
     p3 |-> [address |-> "p3", tokenMintA |-> "A", tokenMintB |-> "X"],
     p4 |-> [address |-> "p4", tokenMintA |-> "X", tokenMintB |-> "B"],
     p5 |-> [address |-> "p5", tokenMintA |-> "Y", tokenMintB |-> "X"],
     p6 |-> [address |-> "p6", tokenMintA |-> "Y", tokenMintB |-> "B"]]

\* The key of the Pool Graph for an ordered token pair.
getRouteId(tokenA, tokenB) == <<tokenA, tokenB>>

\* The route lists a Pool Graph holds for the pair (A, B) in this model: one
\* and two parallel one-hop routes, a two-hop route, a two-hop route stored
\* back to front (so that it is reversed when quoted) beside a one-hop route,
\* a three-hop route, and the empty list.
RouteLists ==
    { << <<"p1">> >>,
      << <<"p1">>, <<"p2">> >>,
      << <<"p3", "p4">> >>,
      << <<"p4", "p3">>, <<"p2">> >>,
      << <<"p3", "p5", "p6">> >>,
      << >> }

\* The Pool Graphs (walks): each has an entry for (A, B) and none for (B, A).
Graphs == { [k \in {getRouteId("A", "B")} |-> rl] : rl \in RouteLists }

\* The token pairs a call is made with.
TokenPairs == { <<"A", "B">>, <<"B", "A">> }

\* DEFAULT_ROUTING_OPTIONS, for the options a call leaves out.
DefaultNumTopPartialQuotes == 10
DefaultMaxSplits == 3

\* The merged RoutingOptions of a call ({...DEFAULT_ROUTING_OPTIONS,
\* ...userRoutingOptions}): the caller gives percentIncrement (a divisor of
\* 100) and numTopRoutes, gives numTopPartialQuotes or leaves it out, and
\* leaves maxSplits out.
PercentIncrements == {50, 100}
RoutingOptions ==
    [percentIncrement : PercentIncrements,
     numTopRoutes : 1..MaxTopRoutes,
     numTopPartialQuotes : {1, DefaultNumTopPartialQuotes},
     maxSplits : {DefaultMaxSplits}]

\* The amounts (otherAmountThreshold) the Quote Engine answers a request with.
QuoteAmounts == {1, 2}

\* SwapErrorCode: the kinds a failed quote is tagged with.
TickArraySequenceInvalid == "TickArraySequenceInvalid"
TickArrayCrossingAboveMax == "TickArrayCrossingAboveMax"
SwapErrorCodes == {TickArraySequenceInvalid, TickArrayCrossingAboveMax}

\* RouteQueryError
ROUTE_DOES_NOT_EXIST == "RouteDoesNotExist"
ZERO_INPUT_AMOUNT == "ZeroInputAmount"
TRADE_AMOUNT_TOO_HIGH == "TradeAmountTooHigh"
GENERAL == "General"

\* ------------------------------------------------------------ small helpers
RECURSIVE SeqSum(_)
SeqSum(s) == IF s = << >> THEN 0 ELSE Head(s) + SeqSum(Tail(s))

RECURSIVE Flatten(_)
Flatten(ss) == IF ss = << >> THEN << >> ELSE Head(ss) \o Flatten(Tail(ss))

Reverse(s) == [i \in 1..Len(s) |-> s[Len(s) + 1 - i]]

IsPrefix(s, t) == Len(s) <= Len(t) /\ \A i \in 1..Len(s) : s[i] = t[i]

\* Array.prototype.sort with a comparator that compares an integer key
\* ascending, as a stable sort (ties keep their order): SortPerm(keys) is the
\* order in which the positions 1..Len(keys) come out, SortByKey(s, keys) the
\* sorted sequence.
RECURSIVE InsertPos(_, _, _)
InsertPos(x, perm, keys) ==
    IF perm = << >> THEN <<x>>
    ELSE IF keys[x] < keys[Head(perm)] THEN <<x>> \o perm
    ELSE <<Head(perm)>> \o InsertPos(x, Tail(perm), keys)

RECURSIVE SortPermUpTo(_, _)
SortPermUpTo(n, keys) ==
    IF n = 0 THEN << >> ELSE InsertPos(n, SortPermUpTo(n - 1, keys), keys)

SortPerm(keys) == SortPermUpTo(Len(keys), keys)

SortByKey(s, keys) == [i \in 1..Len(s) |-> s[SortPerm(keys)[i]]]

\* ---------------------------------------------------------------- the state
VARIABLES
    inputTokenMint, outputTokenMint,  \* the ordered pair of the call
    tradeAmount,                      \* the total amount
    amountSpecifiedIsInput,           \* the direction
    walks,                            \* the caller's Pool Graph
    routingOptions,                   \* the merged options
    pc,                               \* where the call is
    percents, amounts,                \* the slices
    iteration,                        \* the hop indices, in processing order
    hopPos,                           \* how many of them the loop has taken
    quoteMap,                         \* percent -> route index -> chain
    batches,                          \* history: the batch built at each hop
    cleanedQuoteMap, prunedQuoteMap,  \* the aggregator's and pruner's maps
    failures,                         \* the call-wide failure-kind set
    result                            \* how the call completed

vars == <<inputTokenMint, outputTokenMint, tradeAmount, amountSpecifiedIsInput,
          walks, routingOptions, pc, percents, amounts, iteration, hopPos,
          quoteMap, batches, cleanedQuoteMap, prunedQuoteMap, failures, result>>

\* The arguments of the call other than the Pool Graph, and all of them.
arguments == <<inputTokenMint, outputTokenMint, tradeAmount,
               amountSpecifiedIsInput, routingOptions>>
inputs == <<arguments, walks>>

\* walks[getRouteId(inputTokenMint, outputTokenMint)]; Absent is undefined.
Absent == << <<"absent">> >>
HasEntry == getRouteId(inputTokenMint, outputTokenMint) \in DOMAIN walks
pairRoutes ==
    IF HasEntry THEN walks[getRouteId(inputTokenMint, outputTokenMint)]
    ELSE Absent

\* ------------------------------------------------------------------ results
NoResult ==
    [how |-> "pending", shape |-> "none", success |-> FALSE,
     error |-> "None", bestRoutes |-> << >>]
\* Promise.reject({success: false, error})
Rejected(err) ==
    [how |-> "rejected", shape |-> "Result", success |-> FALSE,
     error |-> err, bestRoutes |-> << >>]
\* an exception that leaves the async function: a rejection with the exception
Thrown(what) ==
    [how |-> "rejected", shape |-> "exception", success |-> FALSE,
     error |-> what, bestRoutes |-> << >>]
\* return {success: false, error, ...}
Failure(err) ==
    [how |-> "returned", shape |-> "Result", success |-> FALSE,
     error |-> err, bestRoutes |-> << >>]
\* return {success: true, bestRoutes}
Success(routes) ==
    [how |-> "returned", shape |-> "Result", success |-> TRUE,
     error |-> "None", bestRoutes |-> routes]

\* ------------------------------------------------------- Percentage Slicer
generatePercentageAmountsRounded(inputAmount, minPercent) ==
    [percents |-> [i \in 1..(100 \div minPercent) |-> i * minPercent],
     amounts |-> [i \in 1..(100 \div minPercent) |->
                     (inputAmount * (i * minPercent) + 50) \div 100]]

generatePercentageAmounts(inputAmount, minPercent) ==
    [percents |-> [i \in 1..(100 \div minPercent) |-> i * minPercent],
     amounts |-> [i \in 1..(100 \div minPercent) |->
                     (inputAmount * (i * minPercent)) \div 100]]

\* ------------------------------------------------------------------- Init
Init ==
    /\ \E pair \in TokenPairs :
          /\ inputTokenMint = pair[1]
          /\ outputTokenMint = pair[2]
    /\ tradeAmount \in 0..MaxAmount
    /\ amountSpecifiedIsInput \in BOOLEAN
    /\ walks \in Graphs
    /\ routingOptions \in RoutingOptions
    /\ pc = "start"
    /\ percents = << >>
    /\ amounts = << >>
    /\ iteration = << >>
    /\ hopPos = 0
    /\ quoteMap = << >>
    /\ batches = << >>
    /\ cleanedQuoteMap = << >>
    /\ prunedQuoteMap = << >>
    /\ failures = {}
    /\ result = NoResult

\* --------------------------------------------------------------- validation
\* The error of the two validation checks, "None" when both pass.  An empty
\* route list is an entry (an empty array is truthy).
RejectFirstZero(hasEntry, amount) ==
    IF amount = 0 THEN ZERO_INPUT_AMOUNT
    ELSE IF ~hasEntry THEN ROUTE_DOES_NOT_EXIST
    ELSE "None"

ValidationError(hasEntry, amount) ==
    IF ~hasEntry THEN ROUTE_DOES_NOT_EXIST
    ELSE IF amount = 0 THEN ZERO_INPUT_AMOUNT
    ELSE "None"

\* findBestRoutes up to its first suspension: the two checks, then the call
\* of prefetchRoutes.
Validate ==
    /\ pc = "start"
    /\ LET err == ValidationError(HasEntry, tradeAmount) IN
       IF err # "None"
       THEN /\ result' = Rejected(err)
            /\ pc' = "done"
       ELSE /\ pc' = "prefetch"
            /\ UNCHANGED result
    /\ UNCHANGED <<inputs, percents, amounts, iteration, hopPos, quoteMap,
                   batches, cleanedQuoteMap, prunedQuoteMap, failures>>

\* ------------------------------------------------ prefetch and slicing
\* prefetchRoutes, then the slices and the hop iteration.  Either fetch of
\* the State Fetcher may throw; Array(maxRouteLength) throws a RangeError when
\* the route list is empty (Math.max() of nothing is -Infinity).  Neither is
\* inside the try block.
RouteLengths(routes) == { Len(routes[i]) : i \in 1..Len(routes) }
MaxRouteLength(routes) ==
    CHOOSE m \in RouteLengths(routes) : \A n \in RouteLengths(routes) : n <= m

\* Array.from(Array(n).keys()), reversed when the amount is the output.

HopIteration(n, isInput) ==
    IF isInput THEN [i \in 1..n |-> i - 1] ELSE [i \in 1..n |-> n - i]

Prefetch ==
    /\ pc = "prefetch"
    /\ \E fetched \in BOOLEAN :
          IF ~fetched
          THEN /\ result' = Thrown("FetchError")
               /\ pc' = "done"
               /\ UNCHANGED <<percents, amounts, iteration>>
          ELSE IF pairRoutes = << >>
          THEN /\ result' = Thrown("RangeError")
               /\ pc' = "done"
               /\ percents' = generatePercentageAmounts(
                                 tradeAmount, routingOptions.percentIncrement).percents
               /\ amounts' = generatePercentageAmounts(
                                 tradeAmount, routingOptions.percentIncrement).amounts
               /\ UNCHANGED iteration
          ELSE /\ percents' = generatePercentageAmounts(
                                 tradeAmount, routingOptions.percentIncrement).percents
               /\ amounts' = generatePercentageAmounts(
                                 tradeAmount, routingOptions.percentIncrement).amounts
               /\ iteration' = HopIteration(MaxRouteLength(pairRoutes),
                                            amountSpecifiedIsInput)
               /\ pc' = "hop"
               /\ UNCHANGED result
    /\ UNCHANGED <<inputs, hopPos, quoteMap, batches, cleanedQuoteMap,
                   prunedQuoteMap, failures>>

\* ------------------------------------------------------ Quote Batch Builder
\* A slot of calculatedHops that was never written (a hole of Array(n)).
Unset ==
    [set |-> FALSE, success |-> FALSE, error |-> "None", percent |-> 0,
     amountIn |-> 0, amountOut |-> 0, whirlpool |-> "None",
     inputMint |-> "None", outputMint |-> "None"]

\* A slot of quoteMap[percent] that was never written.
NoEntry == [percent |-> 0, route |-> << >>, calculatedHops |-> << >>]

\* line 289: the route has no hop of this index
RouteHasNoHop(route, hop) ==
    IF amountSpecifiedIsInput THEN Len(route) <= hop ELSE hop > Len(route) - 1

\* line 293
startingRouteEval(route, hop) ==
    IF amountSpecifiedIsInput THEN hop = 0 ELSE hop = Len(route) - 1

\* lines 304-315: the route as quoted; reversed when its first pool does not
\* hold the input token.
NeverReversed(route) == route

orderedRoute(route) ==
    IF /\ Pools[route[1]].tokenMintA # inputTokenMint
       /\ Pools[route[1]].tokenMintB # inputTokenMint
    THEN Reverse(route)
    ELSE route

\* lines 307-315 as seen from the Pool Graph: orderedRoute is the route of
\* the graph itself, or a reversed copy of it ([...route].reverse()), so the
\* route of the graph is left as it is.
routeReversedInPlace(route) == orderedRoute(route)

routeInGraphAfterOrdering(route) == route

\* The Pool Graph after buildQuoteUpdateRequests for hop: every route of the
\* pair that has this hop went through lines 304-315.
walksAfterBuild(hop) ==
    [walks EXCEPT ![getRouteId(inputTokenMint, outputTokenMint)] =
        [i \in 1..Len(pairRoutes) |->
            IF RouteHasNoHop(pairRoutes[i], hop) THEN pairRoutes[i]
            ELSE routeInGraphAfterOrdering(pairRoutes[i])]]

\* lines 318-320: the adjacent hop computed before this one
lastHopOf(currentQuote, hop) ==
    IF amountSpecifiedIsInput
    THEN currentQuote.calculatedHops[(hop - 1) + 1]
    ELSE currentQuote.calculatedHops[(hop + 1) + 1]

\* lines 329-331: no request is built when the adjacent hop is not a Success
\* (a Failure, or a slot never written).
NeverBlocked(currentQuote, hop, starting) == FALSE

BlockedByLastHop(currentQuote, hop, starting) ==
    ~starting /\ ~lastHopOf(currentQuote, hop).success

\* lines 325-333: the amount of the request
tokenAmountOfSameSide(currentQuote, hop, starting, sliceAmount) ==
    IF starting THEN sliceAmount
    ELSE IF amountSpecifiedIsInput THEN lastHopOf(currentQuote, hop).amountIn
    ELSE lastHopOf(currentQuote, hop).amountOut

tokenAmountOf(currentQuote, hop, starting, sliceAmount) ==
    IF starting THEN sliceAmount
    ELSE IF amountSpecifiedIsInput THEN lastHopOf(currentQuote, hop).amountOut
    ELSE lastHopOf(currentQuote, hop).amountIn

\* The body of the two loops for one (amountIndex, routeIndex): acc holds the
\* quote map and the updates pushed so far.
BuildOne(acc, amountIndex, routeIndex, hop) ==
    LET percent == percents[amountIndex]
        sliceAmount == amounts[amountIndex]
        route == pairRoutes[routeIndex]
        qm0 == IF percent \in DOMAIN acc.quoteMap THEN acc.quoteMap
               ELSE acc.quoteMap @@
                    (percent :> [r \in 1..Len(pairRoutes) |-> NoEntry])
        starting == startingRouteEval(route, hop)
        qm1 == IF starting
               THEN [qm0 EXCEPT ![percent][routeIndex] =
                        [percent |-> percent, route |-> route,
                         calculatedHops |-> [h \in 1..Len(route) |-> Unset]]]
               ELSE qm0
        currentQuote == qm1[percent][routeIndex]
        pool == Pools[orderedRoute(route)[hop + 1]]
        lastHop == lastHopOf(currentQuote, hop)
        tokenAmount == tokenAmountOf(currentQuote, hop, starting, sliceAmount)
        tradeToken ==
            IF starting
            THEN (IF amountSpecifiedIsInput THEN inputTokenMint
                  ELSE outputTokenMint)
            ELSE IF amountSpecifiedIsInput THEN lastHop.outputMint
            ELSE lastHop.inputMint
    IN  IF RouteHasNoHop(route, hop)
        THEN [quoteMap |-> qm0, updates |-> acc.updates]
        ELSE IF BlockedByLastHop(currentQuote, hop, starting)
        THEN [quoteMap |-> qm1, updates |-> acc.updates]
        ELSE [quoteMap |-> qm1,
              updates |-> Append(acc.updates,
                  [percent |-> percent,
                   routeIndex |-> routeIndex,
                   hopIndex |-> hop,
                   quoteIndex |-> Len(acc.updates),
                   address |-> pool.address,
                   request |-> [whirlpool |-> pool.address,
                                tradeTokenMint |-> tradeToken,
                                tokenAmount |-> tokenAmount,
                                amountSpecifiedIsInput |->
                                    amountSpecifiedIsInput]])]

\* The two nested loops, amounts outside and routes inside: step k is
\* (amountIndex, routeIndex) = (k \div nRoutes + 1, k % nRoutes + 1).
RECURSIVE BuildLoop(_, _, _)
BuildLoop(acc, k, hop) ==
    IF k >= Len(amounts) * Len(pairRoutes) THEN acc
    ELSE BuildLoop(BuildOne(acc, (k \div Len(pairRoutes)) + 1,
                            (k % Len(pairRoutes)) + 1, hop),
                   k + 1, hop)

\* buildQuoteUpdateRequests: the updates of hop, and the quote map with the
\* chains that start at this hop initialised.
buildQuoteUpdateRequests(hop, qm) ==
    BuildLoop([quoteMap |-> qm, updates |-> << >>], 0, hop)

\* ------------------------------------------------------ Hop Quote Executor
\* The answers of the Quote Engine (swapQuoteWithParams) to one request: a
\* quote with its otherAmountThreshold, or an error with its errorCode.
QuoteOutcomes ==
    { [ok |-> TRUE, otherAmount |-> a, errorCode |-> "None"] : a \in QuoteAmounts }
    \cup
    { [ok |-> FALSE, otherAmount |-> 0, errorCode |-> e] : e \in SwapErrorCodes }

\* batchBuildSwapQuoteParams: one SwapQuoteParam per request, in request
\* order.  The trade flows A to B iff the trade token is mint A and the amount
\* is the input, or it is mint B and the amount is the output.
batchBuildSwapQuoteParams(requests) ==
    [i \in 1..Len(requests) |->
        [whirlpoolData |-> Pools[requests[i].whirlpool],
         tokenAmount |-> requests[i].tokenAmount,
         aToB |-> ((requests[i].tradeTokenMint =
                       Pools[requests[i].whirlpool].tokenMintA)
                   = requests[i].amountSpecifiedIsInput),
         amountSpecifiedIsInput |-> requests[i].amountSpecifiedIsInput]]

\* lines 228-257: the HopResult written for one update
HopResultOf(update, swapParam, outcome) ==
    IF outcome.ok
    THEN [set |-> TRUE, success |-> TRUE, error |-> "None",
          percent |-> update.percent,
          amountIn |-> IF swapParam.amountSpecifiedIsInput
                       THEN swapParam.tokenAmount ELSE outcome.otherAmount,
          amountOut |-> IF swapParam.amountSpecifiedIsInput
                        THEN outcome.otherAmount ELSE swapParam.tokenAmount,
          whirlpool |-> update.address,
          inputMint |-> IF swapParam.aToB
                        THEN swapParam.whirlpoolData.tokenMintA
                        ELSE swapParam.whirlpoolData.tokenMintB,
          outputMint |-> IF swapParam.aToB
                         THEN swapParam.whirlpoolData.tokenMintB
                         ELSE swapParam.whirlpoolData.tokenMintA]
    ELSE [Unset EXCEPT !.set = TRUE, !.error = outcome.errorCode]

\* updateQuoteMap reading the engine's answers from the end of the batch.
RECURSIVE updateQuoteMapMisplaced(_, _, _, _)
updateQuoteMapMisplaced(quoteUpdates, quoteParams, outcomes, qm) ==
    IF quoteUpdates = << >> THEN qm
    ELSE LET u == Head(quoteUpdates)
             written == HopResultOf(u, quoteParams[u.quoteIndex + 1],
                                    outcomes[Len(outcomes) - u.quoteIndex])
         IN  updateQuoteMapMisplaced(
                 Tail(quoteUpdates), quoteParams, outcomes,
                 [qm EXCEPT ![u.percent][u.routeIndex].calculatedHops[u.hopIndex + 1]
                               = written])

\* updateQuoteMap with the try around the loop instead of inside it: the first
\* failed quote is written and ends the loop.
RECURSIVE updateQuoteMapUntilFailure(_, _, _, _)
updateQuoteMapUntilFailure(quoteUpdates, quoteParams, outcomes, qm) ==
    IF quoteUpdates = << >> THEN qm
    ELSE LET u == Head(quoteUpdates)
             written == HopResultOf(u, quoteParams[u.quoteIndex + 1],
                                    outcomes[u.quoteIndex + 1])
             next == [qm EXCEPT ![u.percent][u.routeIndex]
                                   .calculatedHops[u.hopIndex + 1] = written]
         IN  IF outcomes[u.quoteIndex + 1].ok
             THEN updateQuoteMapUntilFailure(Tail(quoteUpdates), quoteParams,
                                             outcomes, next)
             ELSE next

\* updateQuoteMap: for every update in order, the result of the engine for
\* the parameters at the update's quoteIndex is written to the update's slot.
RECURSIVE updateQuoteMap(_, _, _, _)
updateQuoteMap(quoteUpdates, quoteParams, outcomes, qm) ==
    IF quoteUpdates = << >> THEN qm
    ELSE LET u == Head(quoteUpdates)
             written == HopResultOf(u, quoteParams[u.quoteIndex + 1],
                                    outcomes[u.quoteIndex + 1])
         IN  updateQuoteMap(
                 Tail(quoteUpdates), quoteParams, outcomes,
                 [qm EXCEPT ![u.percent][u.routeIndex].calculatedHops[u.hopIndex + 1]
                               = written])

Requests(quoteUpdates) ==
    [i \in 1..Len(quoteUpdates) |-> quoteUpdates[i].request]

\* One iteration of the hop loop in which batchBuildSwapQuoteParams throws:
\* the catch returns the General failure.
HopFaultContinues ==
    /\ pc = "hop"
    /\ hopPos < Len(iteration)
    /\ LET hop == iteration[hopPos + 1]
           built == buildQuoteUpdateRequests(hop, quoteMap)
       IN  /\ quoteMap' = built.quoteMap
           /\ batches' = Append(batches,
                  [hop |-> hop, updates |-> built.updates, issued |-> FALSE,
                   outcomes |-> << >>])
    /\ hopPos' = hopPos + 1
    /\ walks' = walksAfterBuild(iteration[hopPos + 1])
    /\ result' = Failure(GENERAL)
    /\ UNCHANGED <<pc, arguments, percents, amounts, iteration, cleanedQuoteMap,
                   prunedQuoteMap, failures>>

HopFault ==
    /\ pc = "hop"
    /\ hopPos < Len(iteration)
    /\ LET hop == iteration[hopPos + 1]
           built == buildQuoteUpdateRequests(hop, quoteMap)
       IN  /\ quoteMap' = built.quoteMap
           /\ batches' = Append(batches,
                  [hop |-> hop, updates |-> built.updates, issued |-> FALSE,
                   outcomes |-> << >>])
    /\ hopPos' = hopPos + 1
    /\ walks' = walksAfterBuild(iteration[hopPos + 1])
    /\ result' = Failure(GENERAL)
    /\ pc' = "done"
    /\ UNCHANGED <<arguments, percents, amounts, iteration, cleanedQuoteMap,
                   prunedQuoteMap, failures>>

\* One iteration of the hop loop that goes on to the next hop with the batch
\* issued and its results not yet written.
HopQuoteNotAwaited ==
    /\ pc = "hop"
    /\ hopPos < Len(iteration)
    /\ LET hop == iteration[hopPos + 1]
           built == buildQuoteUpdateRequests(hop, quoteMap)
       IN  \E outcomes \in [1..Len(built.updates) -> QuoteOutcomes] :
              /\ quoteMap' = built.quoteMap
              /\ batches' = Append(batches,
                     [hop |-> hop, updates |-> built.updates, issued |-> TRUE,
                      outcomes |-> outcomes])
    /\ hopPos' = hopPos + 1
    /\ walks' = walksAfterBuild(iteration[hopPos + 1])
    /\ UNCHANGED <<pc, arguments, percents, amounts, iteration, cleanedQuoteMap,
                   prunedQuoteMap, failures, result>>

\* One iteration of the hop loop without a fault: the requests are built, the
\* parameters are built in one batch, and every request is quoted and written.
HopQuote ==
    /\ pc = "hop"
    /\ hopPos < Len(iteration)
    /\ LET hop == iteration[hopPos + 1]
           built == buildQuoteUpdateRequests(hop, quoteMap)
           quoteParams == batchBuildSwapQuoteParams(Requests(built.updates))
       IN  \E outcomes \in [1..Len(built.updates) -> QuoteOutcomes] :
              /\ quoteMap' = updateQuoteMap(built.updates, quoteParams,
                                            outcomes, built.quoteMap)
              /\ batches' = Append(batches,
                     [hop |-> hop, updates |-> built.updates, issued |-> TRUE,
                      outcomes |-> outcomes])
    /\ hopPos' = hopPos + 1
    /\ walks' = walksAfterBuild(iteration[hopPos + 1])
    /\ UNCHANGED <<pc, arguments, percents, amounts, iteration, cleanedQuoteMap,
                   prunedQuoteMap, failures, result>>

\* --------------------------------------------------------- Quote Aggregator
SuccessHops(calculatedHops) ==
    SelectSeq(calculatedHops, LAMBDA h : h.set /\ h.success)
FailureHops(calculatedHops) ==
    SelectSeq(calculatedHops, LAMBDA h : h.set /\ ~h.success)

HasSomeSuccess(entry) == Len(SuccessHops(entry.calculatedHops)) >= 1

IsComplete(entry) == Len(SuccessHops(entry.calculatedHops)) = Len(entry.route)

\* lines 378-387: the RouteQuote of a complete chain.  fixedAmount is what
\* the fixed side is set to.
RouteQuoteOf(entry, fixedAmount, isInput) ==
    LET hops == SuccessHops(entry.calculatedHops)
        otherAmount == IF isInput THEN hops[Len(hops)].amountOut
                       ELSE hops[1].amountIn
    IN  [percent |-> entry.percent,
         route |-> entry.route,
         amountIn |-> IF isInput THEN fixedAmount ELSE otherAmount,
         amountOut |-> IF isInput THEN otherAmount ELSE fixedAmount,
         calculatedHops |-> hops]

RECURSIVE CleanBucket(_, _, _)
CleanBucket(entries, fixedAmount, isInput) ==
    IF entries = << >> THEN << >>
    ELSE (IF IsComplete(Head(entries))
          THEN <<RouteQuoteOf(Head(entries), fixedAmount, isInput)>>
          ELSE << >>)
         \o CleanBucket(Tail(entries), fixedAmount, isInput)

\* categorizeQuotes: the cleaned map, the failure kinds, and whether line 393
\* threw (an incomplete chain that holds no Failure has no quoteFailures[0]).
categorizeQuotes(amount, isInput, qm) ==
    LET incomplete == { <<p, i>> \in (DOMAIN qm) \X (1..Len(pairRoutes)) :
                            ~IsComplete(qm[p][i]) }
    IN  [cleanedQuoteMap |->
             [p \in DOMAIN qm |-> CleanBucket(qm[p], amount, isInput)],
         failureErrors |->
             { FailureHops(qm[c[1]][c[2]].calculatedHops)[1].error :
                 c \in { d \in incomplete :
                           FailureHops(qm[d[1]][d[2]].calculatedHops) # << >> } },
         threw |-> \E c \in incomplete :
                      FailureHops(qm[c[1]][c[2]].calculatedHops) = << >>]

\* ------------------------------------------------------------- Quote Pruner
\* lines 406-408: the sort key of a RouteQuote (ascending)
QuoteKeyAscending(q, isInput) == IF isInput THEN q.amountOut ELSE q.amountIn

QuoteKey(q, isInput) == IF isInput THEN 0 - q.amountOut ELSE q.amountIn

SortBucket(bucket, isInput) ==
    SortByKey(bucket, [i \in 1..Len(bucket) |-> QuoteKey(bucket[i], isInput)])

\* line 410: Array.prototype.sort sorts the bucket of the map it is given in
\* place; this is that map after pruneQuoteMap.
SortedInPlace(qm, isInput) == [p \in DOMAIN qm |-> SortBucket(qm[p], isInput)]

pruneQuoteMap(qm, pruneN, isInput) ==
    [p \in DOMAIN qm |->
        LET sortedQuotes == SortBucket(qm[p], isInput)
        IN  SubSeq(sortedQuotes, 1,
                   IF pruneN < Len(sortedQuotes) THEN pruneN
                   ELSE Len(sortedQuotes))]

\* -------------------------------------------------- Route Combination Ranker
\* A combination (route set) of quotes: its totals are the sums over its
\* members.
RouteSetOf(quotes) ==
    [quotes |-> quotes,
     percent |-> SeqSum([i \in 1..Len(quotes) |-> quotes[i].percent]),
     totalIn |-> SeqSum([i \in 1..Len(quotes) |-> quotes[i].amountIn]),
     totalOut |-> SeqSum([i \in 1..Len(quotes) |-> quotes[i].amountOut])]

\* The comparator of route sets, as an ascending key: total amountOut
\* descending when the amount is the input, total amountIn ascending when it
\* is the output.
RouteKey(r, isInput) == IF isInput THEN 0 - r.totalOut ELSE r.totalIn

Unsorted(routes, isInput) == routes

\* .sort(getRouteCompareFn(amountSpecifiedIsInput))
SortRoutes(routes, isInput) ==
    SortByKey(routes, [i \in 1..Len(routes) |-> RouteKey(routes[i], isInput)])

RECURSIVE DescendingSeq(_)
DescendingSeq(S) ==
    IF S = {} THEN << >>
    ELSE LET m == CHOOSE x \in S : \A y \in S : y <= x
         IN  <<m>> \o DescendingSeq(S \ {m})

SharesPool(route, quotes) ==
    \E i \in 1..Len(quotes) :
        \E a \in 1..Len(route), b \in 1..Len(quotes[i].route) :
            route[a] = quotes[i].route[b]

\* Every way to extend cur (percentages non-increasing, within one bucket in
\* bucket order, no pool used twice) to exactly 100 with at most splitsLeft
\* more members.
RECURSIVE generateRouteSets(_, _, _, _, _, _)
generateRouteSets(pm, cur, remaining, splitsLeft, lastPercent, lastIndex) ==
    IF remaining = 0 THEN <<cur>>
    ELSE IF splitsLeft = 0 THEN << >>
    ELSE LET ps == DescendingSeq({ p \in DOMAIN pm :
                                     p <= remaining /\ p <= lastPercent })
         IN  Flatten([a \in 1..Len(ps) |->
                 Flatten([k \in 1..Len(pm[ps[a]]) |->
                     IF /\ (ps[a] < lastPercent \/ k > lastIndex)
                        /\ ~SharesPool(pm[ps[a]][k].route, cur)
                     THEN generateRouteSets(pm, Append(cur, pm[ps[a]][k]),
                                            remaining - ps[a], splitsLeft - 1,
                                            ps[a], k)
                     ELSE << >>])])

\* getRankedRoutes: the combinations of the pruned map, ranked, the first
\* topN of them.
getRankedRoutes(pm, isInput, topN, maxSplits) ==
    LET sets == generateRouteSets(pm, << >>, 100, maxSplits, 100, 0)
        ranked == SortRoutes([i \in 1..Len(sets) |-> RouteSetOf(sets[i])],
                             isInput)
    IN  SubSeq(ranked, 1, IF topN < Len(ranked) THEN topN ELSE Len(ranked))

\* ------------------------------------------------------------- the result
\* The bucket a mistaken getSingleHopSplit would read: the smallest one.
SingleHopSplitOfFirstBucket(qm) ==
    IF DOMAIN qm = {} THEN << >>
    ELSE LET first == CHOOSE p \in DOMAIN qm : \A q \in DOMAIN qm : p <= q
             oneHops == SelectSeq(qm[first],
                            LAMBDA f : Len(f.calculatedHops) = 1
                                       /\ f.calculatedHops[1].success)
         IN  [i \in 1..Len(oneHops) |->
                 [quotes |-> <<oneHops[i]>>,
                  percent |-> 100,
                  totalIn |-> oneHops[i].calculatedHops[1].amountIn,
                  totalOut |-> oneHops[i].calculatedHops[1].amountOut]]

\* getSingleHopSplit: the one-hop quotes of the 100% bucket as unsplit
\* candidates.
getSingleHopSplit(qm) ==
    IF 100 \in DOMAIN qm
    THEN LET oneHops == SelectSeq(qm[100],
                            LAMBDA f : Len(f.calculatedHops) = 1
                                       /\ f.calculatedHops[1].success)
         IN  [i \in 1..Len(oneHops) |->
                 [quotes |-> <<oneHops[i]>>,
                  percent |-> 100,
                  totalIn |-> oneHops[i].calculatedHops[1].amountIn,
                  totalOut |-> oneHops[i].calculatedHops[1].amountOut]]
    ELSE << >>

SingleHopsOfPruned(pruned, cleaned, isInput, topN, maxSplits) ==
    SortRoutes(getRankedRoutes(pruned, isInput, topN, maxSplits)
               \o getSingleHopSplit(pruned), isInput)

\* lines 134-137: the ranked combinations of the pruned map and the one-hop
\* candidates of the cleaned map, sorted.
bestRoutesOf(pruned, cleaned, isInput, topN, maxSplits) ==
    SortRoutes(getRankedRoutes(pruned, isInput, topN, maxSplits)
               \o getSingleHopSplit(cleaned), isInput)

ResultOfAnyFailure(bestRoutes, failureErrors) ==
    IF bestRoutes = << >> /\ failureErrors # {}
    THEN Failure(TRADE_AMOUNT_TOO_HIGH)
    ELSE Success(bestRoutes)

\* lines 140-153
ResultOf(bestRoutes, failureErrors) ==
    IF bestRoutes = << >> /\ TickArraySequenceInvalid \in failureErrors
    THEN Failure(TRADE_AMOUNT_TOO_HIGH)
    ELSE Success(bestRoutes)

\* After the hop loop: categorizeQuotes, pruneQuoteMap (which sorts the
\* cleaned buckets in place), the ranking and the result.
Finish ==
    /\ pc = "hop"
    /\ hopPos = Len(iteration)
    /\ LET cat == categorizeQuotes(tradeAmount, amountSpecifiedIsInput, quoteMap)
           cleaned == SortedInPlace(cat.cleanedQuoteMap, amountSpecifiedIsInput)
           pruned == pruneQuoteMap(cat.cleanedQuoteMap,
                                   routingOptions.numTopPartialQuotes,
                                   amountSpecifiedIsInput)
       IN  IF cat.threw
           THEN /\ result' = Thrown("TypeError")
                /\ UNCHANGED <<cleanedQuoteMap, prunedQuoteMap, failures>>
           ELSE /\ cleanedQuoteMap' = cleaned
                /\ prunedQuoteMap' = pruned
                /\ failures' = cat.failureErrors
                /\ result' = ResultOf(
                       bestRoutesOf(pruned, cleaned, amountSpecifiedIsInput,
                                    routingOptions.numTopRoutes,
                                    routingOptions.maxSplits),
                       cat.failureErrors)
    /\ pc' = "done"
    /\ UNCHANGED <<inputs, percents, amounts, iteration, hopPos, quoteMap,
                   batches>>

\* ------------------------------------------------------- the specification
Next == Validate \/ Prefetch \/ HopFault \/ HopQuote \/ Finish

Spec == Init /\ [][Next]_vars

\* ------------------------------------------------------------ the claims
\* The call is over.
Done == pc = "done"

\* The call is over and got through categorizeQuotes and pruneQuoteMap.
Aggregated == pc = "done" /\ DOMAIN cleanedQuoteMap # {}

\* The failure kinds observed in the quote map: the error of every Failure
\* hop of every chain.
ObservedFailureKinds ==
    { quoteMap[c[1]][c[2]].calculatedHops[c[3]].error :
        c \in { d \in (DOMAIN quoteMap) \X (1..Len(pairRoutes)) \X (1..3) :
                  /\ d[3] <= Len(quoteMap[d[1]][d[2]].calculatedHops)
                  /\ quoteMap[d[1]][d[2]].calculatedHops[d[3]].set
                  /\ ~quoteMap[d[1]][d[2]].calculatedHops[d[3]].success } }

\* C1: findBestRoutes always completes by returning a structured Result; it
\* never completes by throwing or by a rejected promise.
C1_AlwaysReturnsResult ==
    Done => (result.how = "returned" /\ result.shape = "Result")

\* C2: validation is in a fixed order: no entry for the pair gives
\* RouteDoesNotExist, also when the amount is zero; an entry and a zero amount
\* give ZeroInputAmount; with an entry and a non-zero amount neither error is
\* produced, and only such calls get past validation.
C2_ValidationOrder ==
    /\ Done =>
         /\ ~HasEntry =>
               (~result.success /\ result.error = ROUTE_DOES_NOT_EXIST)
         /\ (HasEntry /\ tradeAmount = 0) =>
               (~result.success /\ result.error = ZERO_INPUT_AMOUNT)
         /\ (HasEntry /\ tradeAmount # 0) =>
               result.error \notin {ROUTE_DOES_NOT_EXIST, ZERO_INPUT_AMOUNT}
    /\ pc \in {"prefetch", "hop"} => (HasEntry /\ tradeAmount # 0)

\* C2's case: the pair is absent and the amount is zero, and the call ended
\* with RouteDoesNotExist.
C2_Witness ==
    /\ Done
    /\ ~HasEntry
    /\ tradeAmount = 0
    /\ result.error = ROUTE_DOES_NOT_EXIST

\* C3: every RouteQuote of the Quote Aggregator has its caller-fixed side
\* equal to the slice amount floor(total * p / 100) of its own percentage p,
\* and its other side >= 0.
C3_FixedSideIsSliceAmount ==
    \A p \in DOMAIN cleanedQuoteMap :
        \A i \in 1..Len(cleanedQuoteMap[p]) :
            LET q == cleanedQuoteMap[p][i]
                slice == (tradeAmount * q.percent) \div 100
            IN  IF amountSpecifiedIsInput
                THEN q.amountIn = slice /\ q.amountOut >= 0
                ELSE q.amountOut = slice /\ q.amountIn >= 0

\* C4: every Combination of the returned bestRoutes list, generated by the
\* ranker or built from the 100% bucket, has member percentages that sum to
\* exactly 100.
C4_PercentagesSumTo100 ==
    (Done /\ result.success) =>
        \A i \in 1..Len(result.bestRoutes) :
            LET quotes == result.bestRoutes[i].quotes
            IN  SeqSum([k \in 1..Len(quotes) |-> quotes[k].percent]) = 100

\* C4's case: the returned list holds a split combination and an unsplit one
\* beside each other.
C4_Witness ==
    /\ Done
    /\ result.success
    /\ \E i, j \in 1..Len(result.bestRoutes) :
          /\ Len(result.bestRoutes[i].quotes) = 2
          /\ Len(result.bestRoutes[j].quotes) = 1
          /\ result.bestRoutes[j] \in
                { getSingleHopSplit(cleanedQuoteMap)[k] :
                    k \in 1..Len(getSingleHopSplit(cleanedQuoteMap)) }

\* C5: the returned bestRoutes list never holds more than numTopRoutes
\* entries.
C5_TruncatedToNumTopRoutes ==
    (Done /\ result.success) =>
        Len(result.bestRoutes) <= routingOptions.numTopRoutes

\* C6: the returned list is ordered by the direction's comparator: of two
\* adjacent entries the earlier has total amountOut >= the later when the
\* amount is the input, and total amountIn <= the later when it is the output.
C6_OrderedByComparator ==
    (Done /\ result.success) =>
        \A i \in 1..(Len(result.bestRoutes) - 1) :
            IF amountSpecifiedIsInput
            THEN result.bestRoutes[i].totalOut >= result.bestRoutes[i + 1].totalOut
            ELSE result.bestRoutes[i].totalIn <= result.bestRoutes[i + 1].totalIn

\* C6's case: a returned list in which a one-hop candidate of the 100% bucket
\* ranks strictly before a generated split combination.
C6_Witness ==
    /\ Done
    /\ result.success
    /\ \E i, j \in 1..Len(result.bestRoutes) :
          /\ i < j
          /\ Len(result.bestRoutes[i].quotes) = 1
          /\ Len(result.bestRoutes[j].quotes) = 2
          /\ IF amountSpecifiedIsInput
             THEN result.bestRoutes[i].totalOut > result.bestRoutes[j].totalOut
             ELSE result.bestRoutes[i].totalIn < result.bestRoutes[j].totalIn

\* The one-hop routes whose hop succeeded at the 100% slice.
OneHopSuccesses ==
    { r \in 1..Len(pairRoutes) :
        /\ Len(pairRoutes[r]) = 1
        /\ 100 \in DOMAIN quoteMap
        /\ quoteMap[100][r].calculatedHops[1].set
        /\ quoteMap[100][r].calculatedHops[1].success }

\* C7: every one-hop route whose hop succeeded at the 100% slice is in the
\* returned list as an unsplit 100% candidate, also when pruning removed it
\* from the 100% bucket; a candidate of getSingleHopSplit never has a route of
\* more than one hop or a failed hop.
C7_SingleHopCandidatesKept ==
    Aggregated =>
        /\ \A r \in OneHopSuccesses :
              /\ result.success
              /\ \E i \in 1..Len(result.bestRoutes) :
                    /\ Len(result.bestRoutes[i].quotes) = 1
                    /\ result.bestRoutes[i].quotes[1].route = pairRoutes[r]
                    /\ result.bestRoutes[i].quotes[1].percent = 100
                    /\ result.bestRoutes[i].percent = 100
        /\ \A k \in 1..Len(getSingleHopSplit(cleanedQuoteMap)) :
              LET c == getSingleHopSplit(cleanedQuoteMap)[k]
              IN  /\ Len(c.quotes) = 1
                  /\ Len(c.quotes[1].route) = 1
                  /\ \E r \in OneHopSuccesses : pairRoutes[r] = c.quotes[1].route

\* C7's case: two one-hop routes succeeded at 100%, pruning kept one of them,
\* and the call returned.
C7_Witness ==
    /\ Aggregated
    /\ Cardinality(OneHopSuccesses) = 2
    /\ Len(prunedQuoteMap[100]) = 1
    /\ result.success

\* The only candidate route has two hops and its second hop reported
\* TickArraySequenceInvalid at every slice.
SoleTwoHopRouteExhausted ==
    /\ Len(pairRoutes) = 1
    /\ Len(pairRoutes[1]) = 2
    /\ \A p \in DOMAIN quoteMap :
          /\ quoteMap[p][1].calculatedHops[2].set
          /\ ~quoteMap[p][1].calculatedHops[2].success
          /\ quoteMap[p][1].calculatedHops[2].error = TickArraySequenceInvalid

C9_BatchFaultAbortsCall ==
    result.error = GENERAL =>
        /\ Done
        /\ result = Failure(GENERAL)
        /\ DOMAIN cleanedQuoteMap = {}
        /\ DOMAIN prunedQuoteMap = {}
        /\ failures = {}
        /\ hopPos >= 1
        /\ Len(batches) = hopPos
        /\ ~batches[hopPos].issued
        /\ \A k \in 1..(hopPos - 1) : batches[k].issued
        /\ \A k \in 1..Len(batches) : batches[k].hop = iteration[k]
        /\ \A k \in (hopPos + 1)..Len(iteration) :
              \A b \in 1..Len(batches) : batches[b].hop # iteration[k]

\* C9's case: the parameters of the first of two hops threw, with requests in
\* the batch, and the second hop was left alone.
C9_Witness ==
    /\ result.error = GENERAL
    /\ Len(iteration) = 2
    /\ hopPos = 1
    /\ batches[1].updates # << >>

\* C10: for two calls that differ only in numTopRoutes, N1 < N2, the list
\* for N1 is a prefix of the list for N2.
C10_LargerCapOnlyAppends ==
    Aggregated =>
        \A n1, n2 \in 1..(MaxTopRoutes + 1) :
            n1 < n2 =>
                IsPrefix(bestRoutesOf(prunedQuoteMap, cleanedQuoteMap,
                                      amountSpecifiedIsInput, n1,
                                      routingOptions.maxSplits),
                         bestRoutesOf(prunedQuoteMap, cleanedQuoteMap,
                                      amountSpecifiedIsInput, n2,
                                      routingOptions.maxSplits))

\* ------------------------------------------------ the claims of the hop loop
\* The chains of the quote map that were initialised: (percent, route index).
Chains ==
    { c \in (DOMAIN quoteMap) \X (1..Len(pairRoutes)) :
        quoteMap[c[1]][c[2]] # NoEntry }

\* The hops of a chain in the order in which the loop computes them.
InComputeOrder(calculatedHops) ==
    IF amountSpecifiedIsInput THEN calculatedHops ELSE Reverse(calculatedHops)

\* The place (1-based) of hop index h of a route in that order.
ComputePlace(route, h) ==
    IF amountSpecifiedIsInput THEN h + 1 ELSE Len(route) - h

\* The updates of all batches built so far: (batch, position).
BuiltUpdates ==
    { u \in (1..Len(batches)) \X (1..(Len(percents) * Len(pairRoutes))) :
        u[2] <= Len(batches[u[1]].updates) }
UpdateAt(u) == batches[u[1]].updates[u[2]]

\* C11: a call leaves the caller's Pool Graph unchanged: at every step, also
\* when a route is quoted in reverse and when the call fails, every route list
\* holds the same routes and every route the same pools, in the same order.
C11_PoolGraphUnchanged == [][walks' = walks]_vars

\* C11's case: a route stored back to front was quoted in reverse (its hop 0
\* is the pool stored last), the call got through pruning, and the graph still
\* holds the route as stored.
C11_Witness ==
    /\ Aggregated
    /\ pairRoutes[1] = <<"p4", "p3">>
    /\ \E u \in BuiltUpdates :
          /\ UpdateAt(u).routeIndex = 1
          /\ UpdateAt(u).hopIndex = 0
          /\ UpdateAt(u).address = "p3"
    /\ prunedQuoteMap[100] # << >>

\* C12: failure is sticky within a chain: in the order of computation every
\* hop before a written hop is a Success (so a chain holds at most one Failure
\* and every hop after it stays unset); a request is built only for a chain
\* whose earlier hops are all Success; and after the loop an incomplete chain
\* holds exactly one Failure.
C12_FailureIsSticky ==
    /\ \A c \in Chains :
          LET hops == InComputeOrder(quoteMap[c[1]][c[2]].calculatedHops)
          IN  /\ \A i, k \in 1..Len(hops) :
                    (i < k /\ hops[k].set) => (hops[i].set /\ hops[i].success)
              /\ Len(FailureHops(hops)) <= 1
    /\ \A u \in BuiltUpdates :
          LET entry == quoteMap[UpdateAt(u).percent][UpdateAt(u).routeIndex]
              hops == InComputeOrder(entry.calculatedHops)
          IN  \A i \in 1..(ComputePlace(entry.route, UpdateAt(u).hopIndex) - 1) :
                  hops[i].set /\ hops[i].success
    /\ Aggregated =>
          \A c \in Chains :
              LET hops == quoteMap[c[1]][c[2]].calculatedHops
              IN  Len(SuccessHops(hops)) # Len(hops)
                      => Len(FailureHops(hops)) = 1

\* C12's case: a three-hop chain failed at the first hop computed, the loop
\* ran to its end, and the two later hops of the chain are unset.
C12_Witness ==
    /\ Aggregated
    /\ Len(pairRoutes[1]) = 3
    /\ \E p \in DOMAIN quoteMap :
          LET hops == InComputeOrder(quoteMap[p][1].calculatedHops)
          IN  /\ hops[1].set /\ ~hops[1].success
              /\ ~hops[2].set
              /\ ~hops[3].set

\* C13, at a step of the hop loop: with last the batch just issued, for every
\* request of it that the engine failed, every other request has its own
\* result written, and every other chain is what it would be had that request
\* succeeded.
FailureIsLocalStep ==
    (Len(batches') = Len(batches) + 1 /\ batches'[Len(batches')].issued) =>
        LET last == batches'[Len(batches')]
            before == buildQuoteUpdateRequests(last.hop, quoteMap).quoteMap
            quoteParams == batchBuildSwapQuoteParams(Requests(last.updates))
        IN  \A i \in 1..Len(last.updates) :
                ~last.outcomes[i].ok =>
                    /\ \A j \in 1..Len(last.updates) :
                          j # i =>
                              quoteMap'[last.updates[j].percent]
                                       [last.updates[j].routeIndex]
                                  .calculatedHops[last.updates[j].hopIndex + 1]
                              = HopResultOf(last.updates[j], quoteParams[j],
                                            last.outcomes[j])
                    /\ \A a \in QuoteAmounts :
                          LET asIfOk ==
                                  updateQuoteMap(
                                      last.updates, quoteParams,
                                      [last.outcomes EXCEPT ![i] =
                                          [ok |-> TRUE, otherAmount |-> a,
                                           errorCode |-> "None"]],
                                      before)
                          IN  \A p \in DOMAIN asIfOk :
                                  \A r \in 1..Len(pairRoutes) :
                                      <<p, r>> # <<last.updates[i].percent,
                                                   last.updates[i].routeIndex>>
                                          => quoteMap'[p][r] = asIfOk[p][r]

\* C13, at the end: whether a chain is complete rests on the engine's answers
\* to that chain's own requests alone.
CompleteByOwnAnswers ==
    Aggregated =>
        \A c \in Chains :
            (Len(SuccessHops(quoteMap[c[1]][c[2]].calculatedHops))
                 = Len(pairRoutes[c[2]]))
            <=> \A h \in 0..(Len(pairRoutes[c[2]]) - 1) :
                    \E u \in BuiltUpdates :
                        /\ batches[u[1]].issued
                        /\ UpdateAt(u).percent = c[1]
                        /\ UpdateAt(u).routeIndex = c[2]
                        /\ UpdateAt(u).hopIndex = h
                        /\ batches[u[1]].outcomes[u[2]].ok

\* C13: a per-hop quote failure is local to its chain: when the engine fails
\* the request of one (percentage, route) at a hop, every other request of
\* the batch still gets its own result written, and the hop results and the
\* final completeness of every other chain are as if that request had
\* succeeded.
C13_FailureIsLocal ==
    [][FailureIsLocalStep]_vars /\ []CompleteByOwnAnswers

\* C13's case: a batch of four requests in which the engine failed the first
\* and answered the other three, and the three are complete chains after the
\* loop.
C13_Witness ==
    /\ Aggregated
    /\ Len(batches) = 1
    /\ Len(batches[1].updates) = 4
    /\ ~batches[1].outcomes[1].ok
    /\ \A j \in 2..4 : batches[1].outcomes[j].ok
    /\ Len(cleanedQuoteMap[50]) + Len(cleanedQuoteMap[100]) = 3

\* C14: the steps of a call are strictly ordered: nothing of the hop loop
\* exists before the prefetch has completed; the k-th batch is the batch of
\* hop index k-1 when the amount is the input and of maxRouteLength-k when it
\* is the output; there is one batch per hop processed, every batch but a
\* faulted last one was issued, and a call that reaches pruning issued exactly
\* maxRouteLength batches; and every result of every issued batch is in the
\* quote map, so the next hop is built on all of them.
C14_StepsStrictlyOrdered ==
    /\ pc \in {"start", "prefetch"} =>
          (batches = << >> /\ quoteMap = << >> /\ hopPos = 0)
    /\ batches # << >> => iteration # << >>
    /\ Len(batches) = hopPos
    /\ \A k \in 1..Len(batches) :
          /\ batches[k].hop = IF amountSpecifiedIsInput THEN k - 1
                              ELSE MaxRouteLength(pairRoutes) - k
          /\ k < Len(batches) => batches[k].issued
    /\ Aggregated =>
          /\ Len(batches) = MaxRouteLength(pairRoutes)
          /\ \A k \in 1..Len(batches) : batches[k].issued
    /\ \A u \in BuiltUpdates :
          batches[u[1]].issued =>
              quoteMap[UpdateAt(u).percent][UpdateAt(u).routeIndex]
                  .calculatedHops[UpdateAt(u).hopIndex + 1].set

\* C14's case: a three-hop call with the amount fixed on the output side got
\* through pruning: three batches, of hops 2, 1, 0, the last one with requests.
C14_Witness ==
    /\ Aggregated
    /\ ~amountSpecifiedIsInput
    /\ Len(batches) = 3
    /\ batches[1].hop = 2
    /\ batches[2].hop = 1
    /\ batches[3].hop = 0
    /\ batches[3].updates # << >>

\* The slice amount of a percentage.
SliceAmountOf(percent) ==
    amounts[CHOOSE i \in 1..Len(percents) : percents[i] = percent]

\* The hop of a chain computed just before hop index h.
AdjacentHop(entry, h) ==
    IF amountSpecifiedIsInput THEN entry.calculatedHops[h]
    ELSE entry.calculatedHops[h + 2]

\* C15: amounts propagate along a chain in the direction of computation: the
\* first hop computed of a chain is quoted with the slice amount of its
\* percentage and the input token (amount is input) or the output token
\* (amount is output); every other hop is quoted with the amountOut and
\* outputMint (input) or amountIn and inputMint (output) of the hop computed
\* just before it.  So in every complete chain adjacent hops agree
\* (hops[h].amountOut = hops[h+1].amountIn), and with the amount fixed on the
\* output side the last hop's amountOut is the slice amount.
C15_AmountsPropagate ==
    /\ \A u \in BuiltUpdates :
          LET up == UpdateAt(u)
              entry == quoteMap[up.percent][up.routeIndex]
          IN  IF ComputePlace(entry.route, up.hopIndex) = 1
              THEN /\ up.request.tokenAmount = SliceAmountOf(up.percent)
                   /\ up.request.tradeTokenMint =
                          IF amountSpecifiedIsInput THEN inputTokenMint
                          ELSE outputTokenMint
              ELSE /\ up.request.tokenAmount =
                          IF amountSpecifiedIsInput
                          THEN AdjacentHop(entry, up.hopIndex).amountOut
                          ELSE AdjacentHop(entry, up.hopIndex).amountIn
                   /\ up.request.tradeTokenMint =
                          IF amountSpecifiedIsInput
                          THEN AdjacentHop(entry, up.hopIndex).outputMint
                          ELSE AdjacentHop(entry, up.hopIndex).inputMint
    /\ \A c \in Chains :
          LET hops == quoteMap[c[1]][c[2]].calculatedHops
          IN  (\A h \in 1..Len(hops) : hops[h].set /\ hops[h].success) =>
                  /\ \A h \in 1..(Len(hops) - 1) :
                        hops[h].amountOut = hops[h + 1].amountIn
                  /\ ~amountSpecifiedIsInput =>
                        hops[Len(hops)].amountOut = SliceAmountOf(c[1])

\* C15's case: the amount is fixed on the output side, the route list holds a
\* two-hop route and a one-hop route, the one-hop route started at hop 0 with
\* the slice amount, and the two-hop chain of the full amount is complete with
\* an input amount that differs from the slice.
C15_Witness ==
    /\ Aggregated
    /\ ~amountSpecifiedIsInput
    /\ Len(pairRoutes) = 2
    /\ Len(pairRoutes[1]) = 2
    /\ Len(pairRoutes[2]) = 1
    /\ \E u \in BuiltUpdates :
          /\ UpdateAt(u).routeIndex = 2
          /\ UpdateAt(u).hopIndex = 0
          /\ batches[u[1]].hop = 0
    /\ LET hops == quoteMap[100][1].calculatedHops
       IN  /\ \A h \in 1..2 : hops[h].set /\ hops[h].success
           /\ hops[1].amountIn # hops[2].amountOut

\* The slot an update writes.
SlotOf(up) == <<up.percent, up.routeIndex, up.hopIndex>>

\* C16: results are correlated to requests by position only: the request at
\* position i of a batch carries quoteIndex i-1; the slot of request i holds
\* the result of the engine's answer at position i for the parameters at
\* position i; no two requests, of one batch or of different batches, have
\* the same slot, so each slot is written at most once; and no slot is
\* written that is not the slot of an issued request.
C16_CorrelatedByPosition ==
    /\ \A u \in BuiltUpdates : UpdateAt(u).quoteIndex = u[2] - 1
    /\ \A u, v \in BuiltUpdates :
          u # v => SlotOf(UpdateAt(u)) # SlotOf(UpdateAt(v))
    /\ \A u \in BuiltUpdates :
          batches[u[1]].issued =>
              quoteMap[UpdateAt(u).percent][UpdateAt(u).routeIndex]
                  .calculatedHops[UpdateAt(u).hopIndex + 1]
              = HopResultOf(
                    UpdateAt(u),
                    batchBuildSwapQuoteParams(
                        Requests(batches[u[1]].updates))[u[2]],
                    batches[u[1]].outcomes[u[2]])
    /\ \A c \in Chains :
          \A h \in 1..Len(quoteMap[c[1]][c[2]].calculatedHops) :
              quoteMap[c[1]][c[2]].calculatedHops[h].set =>
                  \E u \in BuiltUpdates :
                      /\ batches[u[1]].issued
                      /\ SlotOf(UpdateAt(u)) = <<c[1], c[2], h - 1>>

\* C16's case: a batch whose first request was answered and whose second
\* request was failed, followed by a second batch that was issued.
C16_Witness ==
    /\ Len(batches) >= 2
    /\ batches[2].issued
    /\ batches[2].updates # << >>
    /\ Len(batches[1].updates) >= 2
    /\ batches[1].outcomes[1].ok
    /\ ~batches[1].outcomes[2].ok

\* The number of Success hops of a chain, and the error of its first Failure.
SuccessCount(hops) ==
    Cardinality({ h \in 1..Len(hops) : hops[h].set /\ hops[h].success })
FirstFailureError(hops) ==
    hops[CHOOSE h \in 1..Len(hops) :
            /\ hops[h].set /\ ~hops[h].success
            /\ \A g \in 1..(h - 1) : ~(hops[g].set /\ ~hops[g].success)].error
HasFailure(hops) == \E h \in 1..Len(hops) : hops[h].set /\ ~hops[h].success
QuotesOfChain(bucket, c) ==
    { i \in 1..Len(bucket) :
        bucket[i].percent = c[1] /\ bucket[i].route = pairRoutes[c[2]] }

\* C17: after the hop loop a chain is a RouteQuote of the cleaned map, once,
\* if and only if its number of Success hops equals the route length; every
\* other chain is in neither the cleaned nor the pruned map and has the error
\* kind of its first Failure hop in the failure-kind set, which holds nothing
\* else.
C17_CompleteChainsOnly ==
    Aggregated =>
        /\ DOMAIN cleanedQuoteMap = DOMAIN quoteMap
        /\ \A c \in Chains :
              LET hops == quoteMap[c[1]][c[2]].calculatedHops
              IN  IF SuccessCount(hops) = Len(pairRoutes[c[2]])
                  THEN Cardinality(QuotesOfChain(cleanedQuoteMap[c[1]], c)) = 1
                  ELSE /\ QuotesOfChain(cleanedQuoteMap[c[1]], c) = {}
                       /\ QuotesOfChain(prunedQuoteMap[c[1]], c) = {}
                       /\ HasFailure(hops)
                       /\ FirstFailureError(hops) \in failures
        /\ \A p \in DOMAIN cleanedQuoteMap :
              \A i \in 1..Len(cleanedQuoteMap[p]) :
                  \E c \in Chains :
                      /\ i \in QuotesOfChain(cleanedQuoteMap[p], c)
                      /\ c[1] = p
        /\ \A e \in failures :
              \E c \in Chains :
                  LET hops == quoteMap[c[1]][c[2]].calculatedHops
                  IN  /\ SuccessCount(hops) # Len(pairRoutes[c[2]])
                      /\ HasFailure(hops)
                      /\ FirstFailureError(hops) = e

\* C17's case: of a two-hop route quoted forward the half chain succeeded at
\* hop 0 and failed at hop 1, the full chain is complete: the cleaned map holds
\* the full chain only and the failure-kind set the kind of the failed hop.
C17_Witness ==
    /\ Aggregated
    /\ amountSpecifiedIsInput
    /\ Len(pairRoutes) = 1
    /\ Len(pairRoutes[1]) = 2
    /\ DOMAIN quoteMap = {50, 100}
    /\ quoteMap[50][1].calculatedHops[1].success
    /\ quoteMap[50][1].calculatedHops[2].error = TickArrayCrossingAboveMax
    /\ cleanedQuoteMap[50] = << >>
    /\ Len(cleanedQuoteMap[100]) = 1
    /\ failures = {TickArrayCrossingAboveMax}

\* The cleaned map as categorizeQuotes returns it, before pruneQuoteMap sorts
\* its buckets.
CleanedAsCategorized ==
    categorizeQuotes(tradeAmount, amountSpecifiedIsInput, quoteMap).cleanedQuoteMap

\* a ranks strictly better than b.
RanksBetter(a, b) ==
    IF amountSpecifiedIsInput THEN a.amountOut > b.amountOut
    ELSE a.amountIn < b.amountIn
PlaceIn(bucket, q) == CHOOSE k \in 1..Len(bucket) : bucket[k] = q

\* C18: every pruned bucket is the first numTopPartialQuotes quotes of the
\* stable sort of its cleaned bucket: it holds min(numTopPartialQuotes, size)
\* quotes of the cleaned bucket, each once, best first; quotes of equal rank
\* are in enumeration order; and every dropped quote ranks no better than
\* every kept one and, at equal rank, was enumerated later.
C18_PrunedIsTopOfStableSort ==
    Aggregated =>
        \A p \in DOMAIN prunedQuoteMap :
            LET cb == CleanedAsCategorized[p]
                pb == prunedQuoteMap[p]
                pruneN == routingOptions.numTopPartialQuotes
                kept == { PlaceIn(cb, pb[i]) : i \in 1..Len(pb) }
            IN  /\ Len(pb) = IF pruneN < Len(cb) THEN pruneN ELSE Len(cb)
                /\ \A i \in 1..Len(pb) : \E k \in 1..Len(cb) : cb[k] = pb[i]
                /\ Cardinality(kept) = Len(pb)
                /\ \A i, j \in 1..Len(pb) :
                      i < j =>
                          /\ ~RanksBetter(pb[j], pb[i])
                          /\ ~RanksBetter(pb[i], pb[j]) =>
                                PlaceIn(cb, pb[i]) < PlaceIn(cb, pb[j])
                /\ \A d \in (1..Len(cb)) \ kept :
                      \A i \in 1..Len(pb) :
                          /\ ~RanksBetter(cb[d], pb[i])
                          /\ ~RanksBetter(pb[i], cb[d]) =>
                                PlaceIn(cb, pb[i]) < d

\* C18's case: numTopPartialQuotes is 1 and a cleaned bucket holds two quotes,
\* the second ranking better: the pruned bucket holds the second one only.
C18_Witness ==
    /\ Aggregated
    /\ routingOptions.numTopPartialQuotes = 1
    /\ \E p \in DOMAIN prunedQuoteMap :
          LET cb == CleanedAsCategorized[p]
          IN  /\ Len(cb) = 2
              /\ RanksBetter(cb[2], cb[1])
              /\ prunedQuoteMap[p] = <<cb[2]>>

\* The route in trade order: as given when its first pool holds the input
\* token, back to front otherwise.
HoldsToken(pool, mint) ==
    Pools[pool].tokenMintA = mint \/ Pools[pool].tokenMintB = mint
InTradeOrder(route) ==
    IF HoldsToken(route[1], inputTokenMint) THEN route
    ELSE [i \in 1..Len(route) |-> route[Len(route) + 1 - i]]

\* C20: the pool quoted at hop index h of a route is the h-th pool of the
\* route in trade order, at every hop and every percentage and in both
\* directions; so the pool quoted at hop 0 holds the input token and the pool
\* quoted at the last hop holds the output token.
C20_HopPoolOfOrderedRoute ==
    \A u \in BuiltUpdates :
        LET up == UpdateAt(u)
            route == pairRoutes[up.routeIndex]
        IN  /\ up.address = InTradeOrder(route)[up.hopIndex + 1]
            /\ up.request.whirlpool = up.address
            /\ up.hopIndex = 0 => HoldsToken(up.address, inputTokenMint)
            /\ up.hopIndex = Len(route) - 1 =>
                  HoldsToken(up.address, outputTokenMint)

\* C20's case: a two-hop route stored back to front was quoted at both hops
\* with the amount fixed on the output side: hop 1 first, on the pool stored
\* first, then hop 0 on the pool stored last.
C20_Witness ==
    /\ Len(batches) = 2
    /\ ~amountSpecifiedIsInput
    /\ pairRoutes[1] = <<"p4", "p3">>
    /\ \E i \in 1..Len(batches[1].updates) :
          /\ batches[1].updates[i].routeIndex = 1
          /\ batches[1].updates[i].hopIndex = 1
          /\ batches[1].updates[i].address = "p4"
    /\ \E i \in 1..Len(batches[2].updates) :
          /\ batches[2].updates[i].routeIndex = 1
          /\ batches[2].updates[i].hopIndex = 0
          /\ batches[2].updates[i].address = "p3"

\* ------------------------------------ the Percentage Slicer on its own
\* generatePercentageAmounts applied to every total of SliceTotals and every
\* percentIncrement that divides 100.
MaxSliceAmount == 12
BoundaryTotals == {99, 100, 101}
SliceTotals == (1..MaxSliceAmount) \cup BoundaryTotals
DivisorsOf100 == { d \in 1..100 : 100 % d = 0 }

SlicerInit ==
    /\ inputTokenMint = "A"
    /\ outputTokenMint = "B"
    /\ tradeAmount \in SliceTotals
    /\ amountSpecifiedIsInput = TRUE
    /\ walks = [id \in {getRouteId("A", "B")} |-> <<<<"p1">>>>]
    /\ routingOptions \in [percentIncrement : DivisorsOf100,
                           numTopRoutes : {1},
                           numTopPartialQuotes : {DefaultNumTopPartialQuotes},
                           maxSplits : {DefaultMaxSplits}]
    /\ pc = "start"
    /\ percents = << >>
    /\ amounts = << >>
    /\ iteration = << >>
    /\ hopPos = 0
    /\ quoteMap = << >>
    /\ batches = << >>
    /\ cleanedQuoteMap = << >>
    /\ prunedQuoteMap = << >>
    /\ failures = {}
    /\ result = NoResult

\* lines 75-78: the slicer is called with the trade amount and the
\* percentIncrement of the options.
Slice ==
    /\ pc = "start"
    /\ percents' = generatePercentageAmounts(
                       tradeAmount, routingOptions.percentIncrement).percents
    /\ amounts' = generatePercentageAmounts(
                      tradeAmount, routingOptions.percentIncrement).amounts
    /\ pc' = "done"
    /\ UNCHANGED <<inputs, iteration, hopPos, quoteMap, batches,
                   cleanedQuoteMap, prunedQuoteMap, failures, result>>

SlicerNext == Slice

SlicerSpec == SlicerInit /\ [][SlicerNext]_vars

\* The slicer has run.
Sliced == pc = "done" /\ percents # << >>

\* C19: for every total > 0 and every percentIncrement that divides 100 the
\* slicer yields the percentages percentIncrement, 2*percentIncrement, ...,
\* 100 in ascending order, each with the amount floor(total * p / 100): the
\* amounts are non-decreasing, none exceeds the total, and the amount of the
\* 100% slice is the total.
C19_SlicesAreFloors ==
    Sliced =>
        LET n == Len(percents)
        IN  /\ n * routingOptions.percentIncrement = 100
            /\ Len(amounts) = n
            /\ percents[n] = 100
            /\ amounts[n] = tradeAmount
            /\ \A i \in 1..n :
                  /\ percents[i] = i * routingOptions.percentIncrement
                  /\ amounts[i] * 100 <= tradeAmount * percents[i]
                  /\ tradeAmount * percents[i] < (amounts[i] + 1) * 100
                  /\ amounts[i] <= tradeAmount
            /\ \A i \in 1..(n - 1) :
                  /\ percents[i] < percents[i + 1]
                  /\ amounts[i] <= amounts[i + 1]

\* C19's case: a total of 1 sliced by 25: the amounts 0, 0, 0, 1, where
\* rounding to nearest would give 0, 1, 1, 1.
C19_Witness ==
    /\ Sliced
    /\ tradeAmount = 1
    /\ routingOptions.percentIncrement = 25
    /\ percents = <<25, 50, 75, 100>>
    /\ amounts = <<0, 0, 0, 1>>

====
